---- MODULE Spec2Model ----
(***************************************************************************)
(* Model of the MCP connection registry (lib/mcp-manager: MCPServerManager),*)
(* the discovery route (app/api/mcp/discover) and the streaming translator  *)
(* of the agent route (ReadableStream.start).                               *)
(*                                                                          *)
(* Every async function is cut at its await points: one action is the      *)
(* synchronous code that runs between two awaits, together with the outcome *)
(* of the awaited provider operation (resolve or reject).                   *)
(***************************************************************************)
EXTENDS Integers, Sequences, FiniteSets, TLC

\* ------------------------------------------------------------------ bounds
MaxLen == 3
MaxHandles == 4
MaxDiscoverCalls == 2
MaxEvents == 3

\* ------------------------------------------------------- values and configs
\* A field that the request's JSON does not carry.
Absent == "<absent>"

\* The provider configurations the requests draw from (MCPServerConfig).
\* cfgA and cfgA2 carry the same id with different content; cfgB leaves out
\* the command, which the constructor call defaults to 'npx'.
cfgA  == [id |-> "a", name |-> "A", type |-> "stdio", command |-> "node", url |-> Absent]
cfgA2 == [id |-> "a", name |-> "A", type |-> "http", command |-> Absent, url |-> "http://x"]
cfgB  == [id |-> "b", name |-> "B", type |-> "stdio", command |-> Absent, url |-> Absent]

MCPServerConfig == {cfgA, cfgA2, cfgB}

RECURSIVE SeqsUpTo(_, _)
SeqsUpTo(S, n) ==
    IF n = 0 THEN {<<>>}
    ELSE LET shorter == SeqsUpTo(S, n - 1)
         IN  shorter \cup {Append(s, x) : s \in {t \in shorter : Len(t) = n - 1}, x \in S}

\* The lists reconcile is called with: up to MaxLen configs, none of them
\* twice (cfgA and cfgA2 still make lists with a repeated id).
ConfigLists ==
    {s \in SeqsUpTo(MCPServerConfig, MaxLen) :
        \A i, j \in 1..Len(s) : s[i] = s[j] => i = j}

StringifyConfigUsed(c) ==
    SelectSeq(<< <<"id", c.id>>, <<"name", c.name>>, <<"type", c.type>>,
                 <<"command", IF c.type = "stdio" THEN c.command ELSE Absent>>,
                 <<"url", IF c.type = "http" THEN c.url ELSE Absent>> >>,
              LAMBDA kv : kv[2] # Absent)

\* JSON.stringify of one config: the present fields, in key order, as
\* key/value pairs; an absent field leaves no trace in the text.
StringifyConfig(c) ==
    SelectSeq(<< <<"id", c.id>>, <<"name", c.name>>, <<"type", c.type>>,
                 <<"command", c.command>>, <<"url", c.url>> >>,
              LAMBDA kv : kv[2] # Absent)

\* JSON.stringify(configs): order- and content-sensitive.
Stringify(configs) ==
    <<"json", [i \in 1..Len(configs) |-> StringifyConfig(configs[i])]>>

\* globalThis.__mcpConfigKey before anything was saved.
Undefined == <<"undefined", <<>> >>

\* The empty string ''.
EmptyString == <<"string", <<>> >>

\* ------------------------------------------------------------ the Map type
\* this.servers: a Map keeps its entries in insertion order; an entry is
\* <<id, handle>>.
MapHas(m, k) == \E i \in 1..Len(m) : m[i][1] = k

\* Map.prototype.set: a present key keeps its place and takes the new value.
MapSet(m, k, v) ==
    IF MapHas(m, k)
    THEN [i \in 1..Len(m) |-> IF m[i][1] = k THEN <<k, v>> ELSE m[i]]
    ELSE Append(m, <<k, v>>)

\* Array.from(map.values())
MapValues(m) == [i \in 1..Len(m) |-> m[i][2]]

MapKeys(m) == {m[i][1] : i \in 1..Len(m)}

MapClearKeep(m) == m

\* Map.prototype.clear
MapClear(m) == <<>>

Range(s) == {s[i] : i \in 1..Len(s)}

\* ----------------------------------------------------------------- state
VARIABLES
    servers,        \* MCPServerManager.servers: Map id -> handle
    isInitialized,  \* MCPServerManager.isInitialized
    mcpConfigKey,   \* globalThis.__mcpConfigKey
    hs,             \* the provider objects constructed so far, by handle
    nextHandle,     \* the next provider object to be constructed
    calls,          \* the registry calls in progress or last completed, by caller
    lastDone,       \* the registry operation that completed last
    applied,        \* the reconcile whose lines 59-61 ran last: key and connected ids
    openAIKey,      \* the default API key of the SDK, set by setDefaultOpenAIKey
    disc,           \* the discover request being served, or the last one served
    discCalls,      \* discover requests received
    discConnects,   \* connect() calls made by discover requests
    discCloses,     \* close() calls made by discover requests
    stream          \* one pass of ReadableStream.start over the run's events

discVars == <<disc, discCalls, discConnects, discCloses>>

streamVars == <<stream>>

regVars == <<servers, isInitialized, mcpConfigKey, hs, nextHandle, calls, lastDone,
             applied, openAIKey>>

Callers == {1, 2}

Handles == 1..MaxHandles

\* No API key.
NoKey == "<no key>"

\* What request.json() yields for the agent route, as far as the registry and
\* the key go: the apiKey and mcpServersConfig (absent, not an array, a list).
NoRequest == [apiKey |-> Absent, hasConfig |-> FALSE, isArray |-> FALSE, configs |-> <<>>]

NoDone == [op |-> "none", key |-> EmptyString, ret |-> <<>>]

IdleCall ==
    [op |-> "idle", pc |-> "idle", configs |-> <<>>, key |-> EmptyString,
     i |-> 0, ci |-> 0, h |-> 0, ret |-> <<>>, nConn |-> 0, nClose |-> 0,
     conn |-> <<>>, fast |-> FALSE, prev |-> NoDone,
     old |-> <<>>, init0 |-> FALSE, key0 |-> Undefined, route |-> "direct",
     action |-> "", req |-> NoRequest, runKey |-> NoKey]

NewCall(op, configs) ==
    [IdleCall EXCEPT !.op = op, !.configs = configs, !.key = Stringify(configs),
                     !.prev = lastDone,
                     !.old = MapValues(servers), !.init0 = isInitialized,
                     !.key0 = mcpConfigKey]

\* The registry and one call of it, as the synchronous code between two awaits
\* reads and writes them. cleared: this.servers.clear() ran in this stretch.
Bundle(call) ==
    [servers |-> servers, isInitialized |-> isInitialized,
     mcpConfigKey |-> mcpConfigKey, hs |-> hs, nextHandle |-> nextHandle,
     call |-> call, cleared |-> FALSE, applied |-> applied,
     openAIKey |-> openAIKey]

\* getCurrentConfigKey: (globalThis as any).__mcpConfigKey || ''
getCurrentConfigKey(g) == IF g = Undefined THEN EmptyString ELSE g

saveCurrentConfigKeyFirst(g, key) == IF g = Undefined THEN key ELSE g

\* saveCurrentConfigKey
saveCurrentConfigKey(g, key) == key

SameConfigNever(init, configKey, currentConfigKey) == FALSE

\* initializeServers line 22: this.isInitialized && configKey === currentConfigKey
SameConfig(init, configKey, currentConfigKey) ==
    init /\ configKey = currentConfigKey

\* server.close() is called on handle h and awaited.
InvokeClose(R, h) ==
    [R EXCEPT !.hs[h].closeInv = @ + 1,
              !.call.nClose = @ + 1, !.call.h = h, !.call.pc = "awaitClose"]

\* closeAllServers has run to its end: back in the caller.
CloseAllReturn(call) ==
    IF call.op = "closeAll"
    THEN [call EXCEPT !.pc = "done", !.h = 0]
    ELSE [call EXCEPT !.pc = "closedAll", !.h = 0]

CloseLoopResetKey(R) ==
    IF R.call.ci <= Len(R.servers)
    THEN InvokeClose(R, R.servers[R.call.ci][2])
    ELSE [R EXCEPT !.servers = MapClear(@), !.isInitialized = FALSE,
                   !.mcpConfigKey = Undefined,
                   !.cleared = TRUE, !.call = CloseAllReturn(@)]

CloseLoopNoClose(R) ==
    [R EXCEPT !.servers = MapClear(@), !.isInitialized = FALSE,
              !.cleared = TRUE, !.call = CloseAllReturn(@)]

\* closeAllServers from the iterator's position ci: the next entry's close, or
\* after the last entry this.servers.clear() and isInitialized = false.
CloseLoop(R) ==
    IF R.call.ci <= Len(R.servers)
    THEN InvokeClose(R, R.servers[R.call.ci][2])
    ELSE [R EXCEPT !.servers = MapClear(@), !.isInitialized = FALSE,
                   !.cleared = TRUE, !.call = CloseAllReturn(@)]

\* The ids of the entries of the call's list whose connect succeeded.
ConnectedIds(call) ==
    {call.configs[k].id : k \in {j \in 1..Len(call.conn) : call.conn[j].ok}}

\* initializeServers lines 59-61.
ReconcileReturn(R) ==
    [R EXCEPT !.isInitialized = TRUE,
              !.applied = [key |-> R.call.key, ids |-> ConnectedIds(R.call)],
              !.mcpConfigKey = saveCurrentConfigKey(@, R.call.key),
              !.call.ret = MapValues(R.servers),
              !.call.pc = "done", !.call.h = 0]

\* The for loop of initializeServers from entry i: construct the provider
\* object of the entry and call connect, or after the last entry return.
ConnectLoop(R) ==
    IF R.call.i <= Len(R.call.configs)
    THEN [R EXCEPT !.hs[R.nextHandle].st = "pending",
                   !.nextHandle = @ + 1,
                   !.call.h = R.nextHandle, !.call.nConn = @ + 1,
                   !.call.pc = "awaitConnect"]
    ELSE ReconcileReturn(R)

\* agent route lines 92-134: once the handles are there, the request builds
\* its agent and starts the run, under the default key of that moment.
RunContinue(R) ==
    IF R.call.route = "run" /\ R.call.pc = "done" /\ R.call.op # "invalid"
    THEN [R EXCEPT !.call.runKey = R.openAIKey]
    ELSE R

\* The registry after a stretch of synchronous code of caller c. A clear()
\* puts every live iterator of the map back at the start of the (empty) map.
Apply(c, R0) ==
    LET R == RunContinue(R0) IN
    /\ servers' = R.servers
    /\ isInitialized' = R.isInitialized
    /\ mcpConfigKey' = R.mcpConfigKey
    /\ hs' = R.hs
    /\ nextHandle' = R.nextHandle
    /\ calls' = [d \in Callers |->
                    IF d = c THEN R.call
                    ELSE IF R.cleared /\ calls[d].pc = "awaitClose"
                         THEN [calls[d] EXCEPT !.ci = 0]
                         ELSE calls[d]]
    /\ lastDone' = IF R.call.pc = "done"
                   THEN [op |-> R.call.op, key |-> R.call.key, ret |-> R.call.ret]
                   ELSE lastDone
    /\ applied' = R.applied
    /\ openAIKey' = R.openAIKey
    /\ UNCHANGED <<discVars, streamVars>>

CanStart(c) == calls[c].pc \in {"idle", "done"}

\* The provider objects a call in flight will still construct.
Reserved(call) ==
    IF call.pc \in {"awaitClose", "closedAll"} THEN Len(call.configs)
    ELSE IF call.pc = "awaitConnect" THEN Len(call.configs) - call.i
    ELSE 0

RECURSIVE ReservedBy(_)
ReservedBy(S) ==
    IF S = {} THEN 0
    ELSE LET d == CHOOSE x \in S : TRUE
         IN  Reserved(calls[d]) + ReservedBy(S \ {d})

\* initializeServers line 22: the registry is initialized with this very list.
Reuse(call) ==
    SameConfig(isInitialized, call.key, getCurrentConfigKey(mcpConfigKey))

\* initializeServers(configs), up to its first await or its early return.
initializeServers(call) ==
    IF Reuse(call)
    THEN Bundle([call EXCEPT !.ret = MapValues(servers),
                             !.fast = TRUE, !.pc = "done"])
    ELSE IF isInitialized
         THEN CloseLoop(Bundle([call EXCEPT !.ci = 1]))
         ELSE ConnectLoop(Bundle([call EXCEPT !.i = 1]))

\* The call fits the handles the model has left.
HandlesLeft(c, call) ==
    \/ Reuse(call)
    \/ nextHandle + Len(call.configs) - 1 + ReservedBy(Callers \ {c}) <= MaxHandles

ReconcileBegin(c, configs) ==
    /\ CanStart(c)
    /\ HandlesLeft(c, NewCall("reconcile", configs))
    /\ Apply(c, initializeServers(NewCall("reconcile", configs)))

\* closeAllServers(), called on its own, up to its first await or its end.
CloseAllBegin(c) ==
    /\ CanStart(c)
    /\ Apply(c, CloseLoop(Bundle([NewCall("closeAll", <<>>) EXCEPT !.ci = 1])))

CloseResumeAbort(c, ok) ==
    /\ calls[c].pc = "awaitClose"
    /\ LET h == calls[c].h
           R == Bundle([calls[c] EXCEPT !.ci = @ + 1])
       IN  Apply(c, IF ok
                    THEN CloseLoop([R EXCEPT !.hs[h].st = "closed"])
                    ELSE [R EXCEPT !.call.pc = "done", !.call.h = 0])

\* await server.close() settles (resolved: ok, rejected and logged: ~ok); the
\* loop goes on with the next entry.
CloseResume(c, ok) ==
    /\ calls[c].pc = "awaitClose"
    /\ LET h == calls[c].h
           R == Bundle([calls[c] EXCEPT !.ci = @ + 1])
       IN  Apply(c, CloseLoop([R EXCEPT !.hs[h].st = IF ok THEN "closed" ELSE @]))

\* await this.closeAllServers() settles inside initializeServers.
CloseAllResume(c) ==
    /\ calls[c].pc = "closedAll"
    /\ Apply(c, ConnectLoop(Bundle([calls[c] EXCEPT !.i = 1])))

ConnectResumeAlways(c, ok) ==
    /\ calls[c].pc = "awaitConnect"
    /\ LET call == calls[c]
           h == call.h
           cfg == call.configs[call.i]
           R == Bundle([call EXCEPT !.i = @ + 1,
                                    !.conn = Append(@, [h |-> h, ok |-> ok])])
       IN  Apply(c, ConnectLoop(
                [R EXCEPT !.hs[h].st = IF ok THEN "connected" ELSE "failed",
                          !.servers = MapSet(@, cfg.id, h)]))

\* await server.connect() settles: on success the handle goes into the map,
\* on failure the catch logs; the loop goes on with the next entry.
ConnectResume(c, ok) ==
    /\ calls[c].pc = "awaitConnect"
    /\ LET call == calls[c]
           h == call.h
           cfg == call.configs[call.i]
           R == Bundle([call EXCEPT !.i = @ + 1,
                                    !.conn = Append(@, [h |-> h, ok |-> ok])])
       IN  Apply(c, ConnectLoop(
                [R EXCEPT !.hs[h].st = IF ok THEN "connected" ELSE "failed",
                          !.servers = IF ok THEN MapSet(@, cfg.id, h) ELSE @]))

\* getServers()
GetServers(c) ==
    /\ CanStart(c)
    /\ Apply(c, Bundle([NewCall("getServers", <<>>) EXCEPT
                            !.ret = MapValues(servers), !.pc = "done"]))

\* ------------------------------------------------------- the manage route
\* What request.json() yields for the manage route: no body (it throws), or
\* a body with an action (or none) and a list of servers (or none).
ManageActions == {"close_all", "update", "restart", Absent}

ManageConfigLists == {<<cfgB>>, <<cfgA, cfgB>>}

ManageBodies ==
    {[parsed |-> FALSE, action |-> Absent, hasServers |-> FALSE, servers |-> <<>>]}
    \cup {[parsed |-> TRUE, action |-> a, hasServers |-> FALSE, servers |-> <<>>] :
             a \in ManageActions}
    \cup {[parsed |-> TRUE, action |-> a, hasServers |-> TRUE, servers |-> l] :
             a \in ManageActions, l \in ManageConfigLists}

updateServersFresh(call) ==
    IF isInitialized
    THEN CloseLoop(Bundle([call EXCEPT !.ci = 1]))
    ELSE ConnectLoop(Bundle([call EXCEPT !.i = 1]))

\* updateServers(configs): await this.initializeServers(configs)
updateServers(call) == initializeServers(call)

\* The call record of a request to the manage route.
ManageCall(op, configs, body) ==
    [NewCall(op, configs) EXCEPT !.route = "manage", !.action = body.action]

\* The manage route answers without calling the registry.
ManageAnswer(c, call) ==
    /\ calls' = [calls EXCEPT ![c] = [call EXCEPT !.pc = "done"]]
    /\ UNCHANGED <<servers, isInitialized, mcpConfigKey, hs, nextHandle, lastDone, applied, openAIKey>>
    /\ UNCHANGED <<discVars, streamVars>>

\* POST of the manage route, up to its first registry await or its answer.
ManageBegin(c, body) ==
    /\ CanStart(c)
    /\ LET configs == IF body.hasServers THEN body.servers ELSE <<>>
       IN  IF ~body.parsed
           THEN ManageAnswer(c, ManageCall("unparsed", <<>>, body))
           ELSE IF body.action = "close_all"
           THEN Apply(c, CloseLoop(Bundle([ManageCall("closeAll", <<>>, body)
                                              EXCEPT !.ci = 1])))
           ELSE IF body.action = "update"
           THEN /\ HandlesLeft(c, ManageCall("reconcile", configs, body))
                /\ Apply(c, updateServers(ManageCall("reconcile", configs, body)))
           ELSE ManageAnswer(c, ManageCall("invalid", <<>>, body))

\* The status of the answer of the manage route once its request is served.
ManageResponse(call) ==
    IF call.route # "manage" \/ call.pc # "done" THEN 0
    ELSE IF call.op = "unparsed" THEN 500
    ELSE IF call.op = "invalid" THEN 400
    ELSE 200

\* ---------------------------------------- the agent route and the registry
ApiKeys == {"k1", "k2"}

RunConfigs == {<<cfgA>>, <<cfgA, cfgB>>}

RunRequests ==
    {[apiKey |-> k, hasConfig |-> FALSE, isArray |-> FALSE, configs |-> <<>>] :
        k \in ApiKeys \cup {Absent}}
    \cup {[apiKey |-> k, hasConfig |-> TRUE, isArray |-> FALSE, configs |-> <<>>] :
             k \in ApiKeys}
    \cup {[apiKey |-> k, hasConfig |-> TRUE, isArray |-> TRUE, configs |-> l] :
             k \in ApiKeys, l \in RunConfigs \cup {<<>>}}

UsesConfigIfArray(req) == req.hasConfig /\ req.isArray

\* agent route line 86:
\* mcpServersConfig && Array.isArray(mcpServersConfig) && mcpServersConfig.length > 0
UsesConfig(req) == req.hasConfig /\ req.isArray /\ Len(req.configs) > 0

\* The call record of a request to the agent route.
RunCall(op, configs, req) ==
    [NewCall(op, configs) EXCEPT !.route = "run", !.req = req]

\* agent route lines 84-90: the handles for the run.
RunServers(req) ==
    IF UsesConfig(req)
    THEN initializeServers(RunCall("reconcile", req.configs, req))
    ELSE Bundle([RunCall("getServers", <<>>, req) EXCEPT
                     !.ret = MapValues(servers), !.pc = "done"])

\* POST of the agent route, up to its first registry await or, without one,
\* up to the start of the run.
RunBegin(c, req) ==
    /\ CanStart(c)
    /\ IF req.apiKey = Absent
       THEN ManageAnswer(c, RunCall("invalid", <<>>, req))
       ELSE /\ UsesConfig(req) => HandlesLeft(c, RunCall("reconcile", req.configs, req))
            /\ Apply(c, [RunServers(req) EXCEPT !.openAIKey = req.apiKey])

RegInit ==
    /\ servers = <<>>
    /\ isInitialized = FALSE
    /\ mcpConfigKey = Undefined
    /\ hs = [h \in Handles |-> [st |-> "none", closeInv |-> 0]]
    /\ nextHandle = 1
    /\ calls = [c \in Callers |-> IdleCall]
    /\ lastDone = NoDone
    /\ applied = [key |-> EmptyString, ids |-> {}]
    /\ openAIKey = NoKey

RegNext(c) ==
    \/ \E configs \in ConfigLists : ReconcileBegin(c, configs)
    \/ CloseAllBegin(c)
    \/ \E ok \in BOOLEAN : CloseResume(c, ok)
    \/ CloseAllResume(c)
    \/ \E ok \in BOOLEAN : ConnectResume(c, ok)
    \/ GetServers(c)

\* ------------------------------------------------------------- discovery
\* An http config without its url, and a config of no known transport.
cfgNoUrl == [id |-> "b", name |-> "B", type |-> "http", command |-> Absent, url |-> Absent]
cfgSse == [id |-> "a", name |-> "A", type |-> "sse", command |-> Absent, url |-> "http://x"]

\* What request.json() yields: no body (it throws), a body without server, or
\* a body with a server config.
cfgEmpty == [id |-> Absent, name |-> Absent, type |-> Absent, command |-> Absent, url |-> Absent]
Malformed == [parsed |-> FALSE, hasServer |-> FALSE, server |-> cfgEmpty]
DiscoverBodies ==
    {Malformed, [parsed |-> TRUE, hasServer |-> FALSE, server |-> cfgEmpty]}
    \cup {[parsed |-> TRUE, hasServer |-> TRUE, server |-> s] :
            s \in {cfgA, cfgA2, cfgB, cfgNoUrl, cfgSse, cfgEmpty}}

\* The tool catalogs a provider may answer listTools with.
toolFull == [name |-> "search", description |-> "Searches"]
toolBare == [name |-> Absent, description |-> Absent]
ToolLists == {<<>>, <<toolFull>>, <<toolBare>>, <<toolFull, toolBare>>}

\* a || b
OrElse(a, b) == IF a = Absent \/ a = "" THEN b ELSE a

\* discover route lines 53-56.
MapTool(tool) ==
    [name |-> OrElse(tool.name, "Unknown Tool"),
     description |-> OrElse(tool.description, "No description available")]

NoResponse == [status |-> 0, kind |-> "none", tools |-> <<>>]
ClientError(msg) == [status |-> 400, kind |-> msg, tools |-> <<>>]
ServerError == [status |-> 500, kind |-> "Failed to discover tools", tools |-> <<>>]
Success(tools) == [status |-> 200, kind |-> "success", tools |-> tools]

IdleDiscover ==
    [pc |-> "idle", body |-> Malformed, mcpServer |-> "null", target |-> Absent,
     resp |-> NoResponse, nConn |-> 0, nClose |-> 0, stage |-> "none",
     closeFailed |-> FALSE]

\* The field the transport of a config needs (the command of a subprocess,
\* the url of an http stream) is missing.
LacksRequiredField(s) ==
    \/ s.type = "stdio" /\ s.command = Absent
    \/ s.type = "http" /\ s.url = Absent

DiscoverFinallySkip(d) == [d EXCEPT !.pc = "done"]

\* discover route lines 73-82: close the provider object if one was made.
DiscoverFinally(d) ==
    IF d.mcpServer # "null"
    THEN [d EXCEPT !.pc = "awaitClose", !.nClose = @ + 1]
    ELSE [d EXCEPT !.pc = "done"]

\* discover route lines 17-48: parse, check, construct, call connect.
DiscoverTry(d) ==
    IF ~d.body.parsed
    THEN DiscoverFinally([d EXCEPT !.resp = ServerError, !.stage = "parseFailed"])
    ELSE LET server == d.body.server
         IN  IF ~d.body.hasServer
             THEN DiscoverFinally([d EXCEPT !.resp = ClientError("Server configuration is required"),
                                            !.stage = "rejected"])
             ELSE IF server.type = "stdio"
             THEN [d EXCEPT !.mcpServer = "stdio",
                            !.target = OrElse(server.command, "npx"),
                            !.nConn = @ + 1, !.pc = "awaitConnect"]
             ELSE IF server.type = "http"
             THEN [d EXCEPT !.mcpServer = "http",
                            !.target = OrElse(server.url, ""),
                            !.nConn = @ + 1, !.pc = "awaitConnect"]
             ELSE DiscoverFinally([d EXCEPT !.resp = ClientError("Invalid server type"),
                                            !.stage = "rejected"])

DiscoverApplyRegister(d) ==
    /\ disc' = d
    /\ discConnects' = discConnects + (d.nConn - disc.nConn)
    /\ discCloses' = discCloses + (d.nClose - disc.nClose)
    /\ servers' = IF d.pc = "awaitList" THEN MapSet(servers, d.body.server.id, 1)
                  ELSE servers
    /\ UNCHANGED <<isInitialized, mcpConfigKey, hs, nextHandle, calls, lastDone, applied, openAIKey>>
    /\ UNCHANGED streamVars

DiscoverApply(d) ==
    /\ disc' = d
    /\ discConnects' = discConnects + (d.nConn - disc.nConn)
    /\ discCloses' = discCloses + (d.nClose - disc.nClose)
    /\ UNCHANGED <<regVars, streamVars>>

\* A discover request arrives: POST up to its first provider await.
DiscoverBegin(body) ==
    /\ disc.pc \in {"idle", "done"}
    /\ discCalls < MaxDiscoverCalls
    /\ discCalls' = discCalls + 1
    /\ LET d == DiscoverTry([IdleDiscover EXCEPT !.body = body])
       IN  /\ disc' = d
           /\ discConnects' = discConnects + d.nConn
           /\ discCloses' = discCloses + d.nClose
    /\ UNCHANGED <<regVars, streamVars>>

\* await mcpServer.connect() settles: listTools is called, or the catch
\* answers 500 and the finally closes.
DiscoverConnectResume(ok) ==
    /\ disc.pc = "awaitConnect"
    /\ DiscoverApply(IF ok
                     THEN [disc EXCEPT !.pc = "awaitList"]
                     ELSE DiscoverFinally([disc EXCEPT !.resp = ServerError,
                                                       !.stage = "connectFailed"]))
    /\ UNCHANGED discCalls

\* await mcpServer.listTools() resolves with a catalog.
DiscoverListResolve(toolsList) ==
    /\ disc.pc = "awaitList"
    /\ DiscoverApply(DiscoverFinally(
          [disc EXCEPT !.resp = Success([i \in 1..Len(toolsList) |-> MapTool(toolsList[i])]),
                       !.stage = "listed"]))
    /\ UNCHANGED discCalls

\* await mcpServer.listTools() rejects.
DiscoverListReject ==
    /\ disc.pc = "awaitList"
    /\ DiscoverApply(DiscoverFinally([disc EXCEPT !.resp = ServerError,
                                                  !.stage = "listFailed"]))
    /\ UNCHANGED discCalls

\* await mcpServer.close() settles; a rejection is logged and dropped.
DiscoverCloseResume(ok) ==
    /\ disc.pc = "awaitClose"
    /\ DiscoverApply([disc EXCEPT !.pc = "done", !.closeFailed = ~ok])
    /\ UNCHANGED discCalls

DiscInit ==
    /\ disc = IdleDiscover
    /\ discCalls = 0
    /\ discConnects = 0
    /\ discCloses = 0

DiscNext ==
    \/ \E body \in DiscoverBodies : DiscoverBegin(body)
    \/ \E ok \in BOOLEAN : DiscoverConnectResume(ok)
    \/ \E toolsList \in ToolLists : DiscoverListResolve(toolsList)
    \/ DiscoverListReject
    \/ \E ok \in BOOLEAN : DiscoverCloseResume(ok)

\* ------------------------------------------------- streaming translator
\* Texts are sequences of tokens, '' the empty one; a text is truthy when it
\* is not empty.
NoText == <<>>

\* rawItem of a tool call item; a field the item lacks is Absent.
NoAction == [present |-> FALSE, query |-> Absent]
Action(q) == [present |-> TRUE, query |-> q]
NoProviderData == [present |-> FALSE, action |-> NoAction]
NoRawItem ==
    [type |-> Absent, action |-> NoAction, providerData |-> NoProviderData,
     output |-> Absent, name |-> Absent, id |-> Absent, status |-> Absent]

ToolCalled(rawItem) ==
    [type |-> "run_item_stream_event", name |-> "tool_called",
     itemType |-> "tool_call_item", rawItem |-> rawItem,
     isArray |-> FALSE, content |-> <<>>]

MessageOutput(content) ==
    [type |-> "run_item_stream_event", name |-> "message_output_created",
     itemType |-> "message_output_item", rawItem |-> NoRawItem,
     isArray |-> TRUE, content |-> content]

UrlCitation(url, title) == [type |-> "url_citation", url |-> url, title |-> title]
FileCitation == [type |-> "file_citation", url |-> Absent, title |-> Absent]
OutputText(text, annotations) ==
    [type |-> "output_text", text |-> text, hasAnnotations |-> TRUE,
     annotations |-> annotations]

partSunny == [OutputText(<<"It is sunny">>, <<>>) EXCEPT !.hasAnnotations = FALSE]
partA == OutputText(<<"A">>, <<>>)
partB == OutputText(<<"B">>, <<UrlCitation("http://u1", "T1")>>)
partC == OutputText(<<"C">>, <<FileCitation, UrlCitation("http://u2", Absent),
                               UrlCitation("http://u1", "T1")>>)
partEmpty == OutputText(NoText, <<UrlCitation("http://u1", "T1")>>)
partRefusal == [type |-> "refusal", text |-> <<"no">>, hasAnnotations |-> FALSE,
                annotations |-> <<>>]

\* The run events the agent run may yield.
evWebSearch ==
    ToolCalled([NoRawItem EXCEPT !.type = "web_search_call", !.action = Action("weather"),
                                 !.id = "ws_1", !.status = "completed"])
evWebSearchOutput ==
    ToolCalled([NoRawItem EXCEPT !.type = "web_search_call", !.action = Action("weather"),
                                 !.output = "raw output", !.id = "ws_2"])
evHosted ==
    ToolCalled([NoRawItem EXCEPT !.type = "hosted_tool_call", !.name = "web_search",
                   !.providerData = [present |-> TRUE, action |-> Action(Absent)],
                   !.status = "in_progress"])
evFunction ==
    ToolCalled([NoRawItem EXCEPT !.type = "function_call", !.name = "read_file",
                   !.providerData = [present |-> TRUE, action |-> NoAction],
                   !.output = "file text", !.id = "fc_1", !.status = "completed"])
evBareTool == ToolCalled(NoRawItem)
evToolOutput ==
    [ToolCalled(NoRawItem) EXCEPT !.name = "tool_output", !.itemType = "tool_call_output_item"]
evRawModel ==
    [ToolCalled(NoRawItem) EXCEPT !.type = "raw_model_stream_event", !.name = Absent,
                                  !.itemType = Absent]
evSunny == MessageOutput(<<partSunny>>)
evCited == MessageOutput(<<partB>>)
evTwoParts == MessageOutput(<<partA, partB>>)
evMixed == MessageOutput(<<partRefusal, partEmpty, partC, partA>>)
evNoContent == [MessageOutput(<<>>) EXCEPT !.isArray = FALSE]

RunEvents ==
    {evWebSearch, evWebSearchOutput, evHosted, evFunction, evBareTool, evToolOutput,
     evRawModel, evSunny, evCited, evTwoParts, evMixed, evNoContent}

\* What the agent run may throw: an Error with a message, or something that
\* is not an Error.
Thrown == {[isError |-> TRUE, message |-> "run failed"],
           [isError |-> FALSE, message |-> Absent]}

\* Date.now().toString() at two instants.
Clock == {"1700000000000", "1700000000001"}

\* A template literal prints an undefined value as the word undefined.
Interpolate(v) == IF v = Absent THEN "undefined" ELSE v

\* The output channel: what the controller was asked to do, in order.
EnqueueFront(chan, frame) == <<[op |-> "enqueue", frame |-> frame]>> \o chan

\* controller.enqueue(encoder.encode(`data: ${JSON.stringify(frame)}\n\n`))
Enqueue(chan, frame) == Append(chan, [op |-> "enqueue", frame |-> frame])

CloseSkip(chan) == chan

CloseTwice(chan) == chan \o <<[op |-> "close", frame |-> [type |-> "none"]],
                             [op |-> "close", frame |-> [type |-> "none"]]>>

\* controller.close()
Close(chan) == Append(chan, [op |-> "close", frame |-> [type |-> "none"]])

\* agent route lines 154-171: the argument payload of a tool call.
ToolArgs(rawItem) ==
    IF rawItem.type = "web_search_call" /\ rawItem.action.present
    THEN <<"action", Interpolate(rawItem.action.query)>>
    ELSE IF rawItem.type = "hosted_tool_call" /\ rawItem.providerData.present
                                                /\ rawItem.providerData.action.present
    THEN <<"providerData.action", Interpolate(rawItem.providerData.action.query)>>
    ELSE IF rawItem.providerData.present
    THEN <<"providerData">>
    ELSE <<"{}">>

\* agent route lines 154-171: the result summary of a tool call; an output
\* field, when the item has one, replaces whatever was set before.
ToolResult(rawItem) ==
    IF OrElse(rawItem.output, Absent) # Absent
    THEN <<rawItem.output>>
    ELSE IF rawItem.type = "web_search_call" /\ rawItem.action.present
    THEN <<"Web search performed for: ", Interpolate(rawItem.action.query),
           "Results are integrated into the response below.">>
    ELSE IF rawItem.type = "hosted_tool_call" /\ rawItem.providerData.present
                                                /\ rawItem.providerData.action.present
    THEN <<"Search query: ", Interpolate(rawItem.providerData.action.query),
           "Results integrated into response.">>
    ELSE <<"Tool executed successfully">>

ToolCallDoneNoFallback(rawItem, now) ==
    [type |-> "tool_call_done",
     tool_name |-> OrElse(rawItem.name, "unknown"),
     tool_call_id |-> OrElse(rawItem.id, ""),
     arguments |-> ToolArgs(rawItem),
     result |-> ToolResult(rawItem),
     status |-> OrElse(rawItem.status, "completed")]

\* agent route lines 173-180.
ToolCallDone(rawItem, now) ==
    [type |-> "tool_call_done",
     tool_name |-> OrElse(rawItem.name, OrElse(rawItem.type, "unknown")),
     tool_call_id |-> OrElse(rawItem.id, now),
     arguments |-> ToolArgs(rawItem),
     result |-> ToolResult(rawItem),
     status |-> OrElse(rawItem.status, "completed")]

\* agent route lines 194-199: the url citations of a content item.
Urls(contentItem) ==
    LET cited == SelectSeq(contentItem.annotations, LAMBDA ann : ann.type = "url_citation")
    IN  [i \in 1..Len(cited) |-> [url |-> cited[i].url, title |-> cited[i].title]]

HasUrls(contentItem) == contentItem.hasAnnotations /\ Len(Urls(contentItem)) > 0

PartFramesTextFirst(chan, contentItem, textContent) ==
    LET sent == Enqueue(chan, [type |-> "content", content |-> textContent])
    IN  IF HasUrls(contentItem)
        THEN Enqueue(sent, [type |-> "tool_urls", urls |-> Urls(contentItem)])
        ELSE sent

\* agent route lines 192-215: the frames of one text part, the citations
\* first.
PartFrames(chan, contentItem, textContent) ==
    LET cited == IF HasUrls(contentItem)
                 THEN Enqueue(chan, [type |-> "tool_urls", urls |-> Urls(contentItem)])
                 ELSE chan
    IN  Enqueue(cited, [type |-> "content", content |-> textContent])

\* agent route line 190: textContent = contentItem.text
NextTextContent(textContent, contentItem) == contentItem.text

\* agent route lines 188-217: the loop over the content items from item k on.
\* T is the channel and the textContent variable.
RECURSIVE ContentLoop(_, _, _)
ContentLoop(T, content, k) ==
    IF k > Len(content) THEN T
    ELSE LET contentItem == content[k]
         IN  IF contentItem.type = "output_text" /\ contentItem.text # NoText
             THEN LET text == NextTextContent(T.textContent, contentItem)
                  IN  ContentLoop([chan |-> PartFrames(T.chan, contentItem, text),
                                   textContent |-> text], content, k + 1)
             ELSE ContentLoop(T, content, k + 1)

HandleEventWithheld(T, event, now) == T

HandleEventAnyItem(T, event, now) ==
    LET T1 == IF event.name # "message_output_created"
              THEN [T EXCEPT !.chan = Enqueue(@, ToolCallDone(event.rawItem, now))]
              ELSE T
    IN  IF /\ event.name = "message_output_created"
           /\ event.itemType = "message_output_item"
           /\ event.isArray
        THEN ContentLoop(T1, event.content, 1)
        ELSE T1

\* agent route lines 146-220: the body of the for-await loop for one event.
HandleEvent(T, event, now) ==
    IF event.type # "run_item_stream_event" THEN T
    ELSE LET T1 == IF event.name = "tool_called" /\ event.itemType = "tool_call_item"
                   THEN [T EXCEPT !.chan = Enqueue(@, ToolCallDone(event.rawItem, now))]
                   ELSE T
         IN  IF /\ event.name = "message_output_created"
                /\ event.itemType = "message_output_item"
                /\ event.isArray
             THEN ContentLoop(T1, event.content, 1)
             ELSE T1

DoneFrame == [type |-> "done", finish_reason |-> "stop"]

ErrorFrame(error) ==
    [type |-> "error",
     error |-> IF error.isError THEN error.message ELSE "Unknown error"]

OnErrorThenDone(chan, error) == Enqueue(Enqueue(chan, ErrorFrame(error)), DoneFrame)

\* agent route lines 230-236: the catch block.
OnError(chan, error) == Enqueue(chan, ErrorFrame(error))

\* The pass takes the next event from the run and handles it; marks keeps the
\* length of the channel log after each event.
StreamEvent(event, now) ==
    /\ stream.pc = "iterating"
    /\ Len(stream.seen) < MaxEvents
    /\ LET T == HandleEvent([chan |-> stream.chan, textContent |-> stream.textContent],
                            event, now)
       IN  stream' = [stream EXCEPT !.seen = Append(@, event),
                                    !.chan = T.chan,
                                    !.textContent = T.textContent,
                                    !.marks = Append(@, Len(T.chan))]
    /\ UNCHANGED <<regVars, discVars>>

FinallyCloseServers(handles, m) ==
    [h \in DOMAIN handles |->
        IF h \in Range(MapValues(m))
        THEN [handles[h] EXCEPT !.closeInv = @ + 1]
        ELSE handles[h]]

\* agent route lines 237-240: the finally block closes the controller and
\* leaves the provider objects of the registry alone.
FinallyServers(handles, m) == handles

\* The run has no more events: the done frame, then the finally block.
StreamExhausted ==
    /\ stream.pc = "iterating"
    /\ stream' = [stream EXCEPT !.pc = "closed",
                                !.chan = Close(Enqueue(@, DoneFrame))]
    /\ hs' = FinallyServers(hs, servers)
    /\ UNCHANGED <<servers, isInitialized, mcpConfigKey, nextHandle, calls, lastDone, applied, openAIKey>>
    /\ UNCHANGED discVars

\* Taking the next event throws: the catch block, then the finally block.
StreamThrow(error) ==
    /\ stream.pc = "iterating"
    /\ stream' = [stream EXCEPT !.pc = "closed", !.threw = TRUE,
                                !.chan = Close(OnError(@, error))]
    /\ hs' = FinallyServers(hs, servers)
    /\ UNCHANGED <<servers, isInitialized, mcpConfigKey, nextHandle, calls, lastDone, applied, openAIKey>>
    /\ UNCHANGED discVars

\* ReadableStream.start is entered: let textContent = ''.
StreamInit ==
    stream = [pc |-> "iterating", seen |-> <<>>, chan |-> <<>>, marks |-> <<>>,
              textContent |-> NoText, threw |-> FALSE]

StreamNext ==
    \/ \E event \in RunEvents, now \in Clock : StreamEvent(event, now)
    \/ StreamExhausted
    \/ \E error \in Thrown : StreamThrow(error)

\* ------------------------------------------------------- specifications
vars == <<regVars, discVars, streamVars>>

Init == RegInit /\ DiscInit /\ StreamInit

\* The registry driven by one caller: no two calls overlap.
Next == RegNext(1)

Spec == Init /\ [][Next]_vars

\* The lists of two callers whose calls may overlap: two lists that configure
\* the same provider id differently.
RaceConfigLists == {<<cfgA>>, <<cfgA2>>}

\* Caller 1 makes reconcile and closeAll calls one after the other until the
\* call of caller 2 has returned; caller 2 makes one reconcile call, at any
\* moment.
RaceStart(c) == IF c = 1 THEN calls[2].pc # "done" ELSE calls[c].pc = "idle"

RaceNext(c) ==
    \/ RaceStart(c) /\ \E configs \in RaceConfigLists : ReconcileBegin(c, configs)
    \/ c = 1 /\ RaceStart(c) /\ CloseAllBegin(c)
    \/ \E ok \in BOOLEAN : CloseResume(c, ok)
    \/ CloseAllResume(c)
    \/ \E ok \in BOOLEAN : ConnectResume(c, ok)

NextRace == \E c \in Callers : RaceNext(c)

\* The registry driven by two callers whose calls interleave at their awaits.
SpecRace == Init /\ [][NextRace]_vars

\* The registry driven by one caller over two lists, next to
\* discover requests for one of the providers.
CleanupConfigLists == {<<cfgB>>, <<cfgA, cfgB>>}

CleanupBodies == {[parsed |-> TRUE, hasServer |-> TRUE, server |-> cfgA]}

\* What listTools of that provider resolves to.
CleanupToolLists == {<<toolFull>>}

NextCleanup ==
    \/ \E configs \in CleanupConfigLists : ReconcileBegin(1, configs)
    \/ CloseAllBegin(1)
    \/ \E ok \in BOOLEAN : CloseResume(1, ok)
    \/ CloseAllResume(1)
    \/ \E ok \in BOOLEAN : ConnectResume(1, ok)
    \/ GetServers(1)
    \/ \E body \in CleanupBodies : DiscoverBegin(body)
    \/ \E ok \in BOOLEAN : DiscoverConnectResume(ok)
    \/ \E toolsList \in CleanupToolLists : DiscoverListResolve(toolsList)
    \/ DiscoverListReject
    \/ \E ok \in BOOLEAN : DiscoverCloseResume(ok)

SpecCleanup == Init /\ [][NextCleanup]_vars

\* A subprocess config with a url, which its transport does not read.
cfgAu == [cfgA EXCEPT !.url = "http://x"]

\* A list, the same configs in another order, and the list with a change in
\* a field that is not read.
FingerprintLists == {<<cfgA, cfgB>>, <<cfgB, cfgA>>, <<cfgAu, cfgB>>}

NextFingerprint ==
    \/ \E configs \in FingerprintLists : ReconcileBegin(1, configs)
    \/ \E ok \in BOOLEAN : CloseResume(1, ok)
    \/ CloseAllResume(1)
    \/ \E ok \in BOOLEAN : ConnectResume(1, ok)

\* Reconcile calls, one after the other, with lists that differ slightly.
SpecFingerprint == Init /\ [][NextFingerprint]_vars

NextRequests ==
    \/ \E req \in RunRequests : RunBegin(1, req)
    \/ \E ok \in BOOLEAN : CloseResume(1, ok)
    \/ CloseAllResume(1)
    \/ \E ok \in BOOLEAN : ConnectResume(1, ok)

\* Requests to the agent route, served one after the other.
SpecRequests == Init /\ [][NextRequests]_vars

\* Run requests under two keys, with a provider list and without one.
KeyRequests ==
    {[apiKey |-> "k1", hasConfig |-> TRUE, isArray |-> TRUE, configs |-> <<cfgA>>],
     [apiKey |-> "k2", hasConfig |-> TRUE, isArray |-> TRUE, configs |-> <<cfgB>>],
     [apiKey |-> "k2", hasConfig |-> FALSE, isArray |-> FALSE, configs |-> <<>>]}

KeysNext(c) ==
    \/ RaceStart(c) /\ \E req \in KeyRequests : RunBegin(c, req)
    \/ \E ok \in BOOLEAN : CloseResume(c, ok)
    \/ CloseAllResume(c)
    \/ \E ok \in BOOLEAN : ConnectResume(c, ok)

NextKeys == \E c \in Callers : KeysNext(c)

\* Requests to the agent route by two callers, interleaved at their awaits.
SpecKeys == Init /\ [][NextKeys]_vars

NextManage ==
    \/ \E body \in ManageBodies : ManageBegin(1, body)
    \/ \E ok \in BOOLEAN : CloseResume(1, ok)
    \/ CloseAllResume(1)
    \/ \E ok \in BOOLEAN : ConnectResume(1, ok)

\* Requests to the manage route, served one after the other.
SpecManage == Init /\ [][NextManage]_vars

\* Discover requests, served one after the other.
SpecDiscover == Init /\ [][DiscNext]_vars

\* One pass of the streaming translator over the events of a run.
SpecStream == Init /\ [][StreamNext]_vars

\* The event sequence of the run ends or raises.
StreamEnds == StreamExhausted \/ \E error \in Thrown : StreamThrow(error)

\* A tool call, a message chunk with a citation, an event that is ignored
\* and a tool call whose id is a clock reading.
LiveEvents == {evWebSearch, evCited, evRawModel, evBareTool}

NextStreamLive ==
    \/ \E event \in LiveEvents, now \in Clock : StreamEvent(event, now)
    \/ StreamExhausted
    \/ \E error \in Thrown : StreamThrow(error)

\* One pass over a run whose event sequence does not go on for ever.
SpecStreamLive == Init /\ [][NextStreamLive]_vars /\ WF_vars(StreamEnds)

\* A pass of the translator while the registry serves reconcile, closeAll and
\* getServers calls of other requests.
RunConfigLists == {<<cfgA>>, <<cfgA, cfgB>>}

RunEventSample == {evCited}

NextRun ==
    \/ \E configs \in RunConfigLists : ReconcileBegin(1, configs)
    \/ CloseAllBegin(1)
    \/ \E ok \in BOOLEAN : CloseResume(1, ok)
    \/ CloseAllResume(1)
    \/ \E ok \in BOOLEAN : ConnectResume(1, ok)
    \/ GetServers(1)
    \/ \E event \in RunEventSample, now \in Clock : StreamEvent(event, now)
    \/ StreamExhausted
    \/ \E error \in Thrown : StreamThrow(error)

SpecRun == Init /\ [][NextRun]_vars

\* ------------------------------------------------ claims on the registry
DoneCalls(op) == {c \in Callers : calls[c].op = op /\ calls[c].pc = "done"}

\* A completed reconcile that directly follows a completed reconcile of a
\* list with the same serialization.
RepeatedReconcile(c) ==
    /\ c \in DoneCalls("reconcile")
    /\ calls[c].prev.op = "reconcile"
    /\ calls[c].prev.key = calls[c].key

\* C1: a reconcile that directly follows a completed reconcile of an
\* identically serialized list calls connect and close zero times and returns
\* the handles the first call returned.
C1_ReconcileIdempotent ==
    \A c \in Callers :
        RepeatedReconcile(c) =>
            /\ calls[c].nConn = 0
            /\ calls[c].nClose = 0
            /\ calls[c].ret = calls[c].prev.ret

\* The same single-entry list reconciled twice, its one connect having
\* succeeded: one provider object was constructed in total.
C1_Witness ==
    \E c \in Callers :
        /\ RepeatedReconcile(c)
        /\ Len(calls[c].configs) = 1
        /\ Len(calls[c].ret) = 1
        /\ nextHandle = 2

\* The handles of the entries of a call whose connect succeeded.
ConnectedBy(call) == {call.conn[i].h : i \in {j \in 1..Len(call.conn) : call.conn[j].ok}}

\* A completed reconcile that went through its connect loop with at least one
\* connect failing.
PartialFailure(c) ==
    /\ c \in DoneCalls("reconcile")
    /\ ~calls[c].fast
    /\ \E i \in 1..Len(calls[c].conn) : ~calls[c].conn[i].ok

\* C2: when the connect of an entry fails, reconcile still attempts connect
\* for every entry and returns the handles of exactly the entries whose
\* connect succeeded.
C2_PartialFailureIsolation ==
    \A c \in Callers :
        PartialFailure(c) =>
            /\ Len(calls[c].conn) = Len(calls[c].configs)
            /\ Range(calls[c].ret) = ConnectedBy(calls[c])

\* The part of C2 that holds of every list: every entry is attempted, every
\* returned handle is one whose connect succeeded, and the ids of the returned
\* handles are the ids of the entries that connected.
C2_AttemptsAll ==
    \A c \in Callers :
        PartialFailure(c) =>
            /\ Len(calls[c].conn) = Len(calls[c].configs)
            /\ Range(calls[c].ret) \subseteq ConnectedBy(calls[c])
            /\ MapKeys(servers) =
                 {calls[c].configs[i].id :
                    i \in {j \in 1..Len(calls[c].conn) : calls[c].conn[j].ok}}

\* C3: a getServers that directly follows a completed closeAll returns the
\* empty list, whatever the closes did.
C3_CloseAllThenGetEmpty ==
    \A c \in Callers :
        (c \in DoneCalls("getServers") /\ calls[c].prev.op = "closeAll")
            => calls[c].ret = <<>>

\* getServers after a closeAll in which the close of a connected handle was
\* called and failed.
C3_Witness ==
    \E c \in Callers :
        /\ c \in DoneCalls("getServers")
        /\ calls[c].prev.op = "closeAll"
        /\ \E h \in Handles : hs[h].closeInv > 0 /\ hs[h].st = "connected"

\* ------------------------------------------------ claims on discovery
\* C4: a discover call that attempted a connect has called close exactly once
\* when it returns, whether connect failed, listTools failed or both
\* succeeded, and never more than once before; over all discover calls served
\* the close calls equal the connect calls.
C4_DiscoverClosesOnce ==
    /\ disc.nClose <= disc.nConn
    /\ disc.nConn <= 1
    /\ disc.pc = "done" => disc.nClose = disc.nConn
    /\ disc.pc \in {"idle", "done"} => discCloses = discConnects

\* A second discover call has returned after its listTools failed, the first
\* one having connected as well.
C4_Witness ==
    /\ disc.pc = "done"
    /\ disc.stage = "listFailed"
    /\ disc.nConn = 1
    /\ discConnects = 2

\* C5: a discover request whose config lacks the field its transport needs is
\* answered with a client error and attempts no connect.
C5_MissingFieldRejected ==
    (/\ disc.pc # "idle"
     /\ disc.body.parsed
     /\ disc.body.hasServer
     /\ LacksRequiredField(disc.body.server))
        => /\ disc.nConn = 0
           /\ disc.pc = "done" => disc.resp.status = 400

\* ---------------------------------------- claims on the streaming translator
\* The frames the channel was asked to carry, in order.
Frames(chan) ==
    LET sent == SelectSeq(chan, LAMBDA x : x.op = "enqueue")
    IN  [k \in 1..Len(sent) |-> sent[k].frame]

FrameTypes(chan) == [k \in 1..Len(Frames(chan)) |-> Frames(chan)[k].type]

CountType(F, type) == Cardinality({k \in 1..Len(F) : F[k].type = type})

CountClose(chan) == Cardinality({k \in 1..Len(chan) : chan[k].op = "close"})

\* What the channel was asked to do while event i was handled.
EventSlice(i) ==
    SubSeq(stream.chan, (IF i = 1 THEN 0 ELSE stream.marks[i - 1]) + 1, stream.marks[i])

IsMessageChunk(event) ==
    /\ event.type = "run_item_stream_event"
    /\ event.name = "message_output_created"
    /\ event.itemType = "message_output_item"
    /\ event.isArray

\* The content items of a chunk that carry text.
TextParts(event) ==
    SelectSeq(event.content, LAMBDA p : p.type = "output_text" /\ p.text # NoText)

\* C6: the pass emits a done frame if and only if taking the events threw
\* nothing; if it threw, the pass emits exactly one error frame and no done
\* frame. Neither frame is emitted while events are still being taken.
C6_DoneIffNoException ==
    LET F == Frames(stream.chan)
    IN  /\ stream.pc = "iterating" => CountType(F, "done") = 0 /\ CountType(F, "error") = 0
        /\ (stream.pc = "closed" /\ ~stream.threw)
              => CountType(F, "done") = 1 /\ CountType(F, "error") = 0
        /\ (stream.pc = "closed" /\ stream.threw)
              => CountType(F, "error") = 1 /\ CountType(F, "done") = 0

\* The run threw after an event that had produced frames.
C6_Witness ==
    /\ stream.pc = "closed"
    /\ stream.threw
    /\ Len(stream.seen) >= 1
    /\ Len(stream.chan) >= 4

\* C7: for every text part of a message chunk that carries at least one url
\* citation, one tool_urls frame listing the {url, title} pairs of the part is
\* emitted directly before the content frame carrying the text of the part;
\* every tool_urls frame is directly followed by a content frame.
C7_CitationsBeforeText ==
    LET F == Frames(stream.chan)
    IN  /\ \A k \in 1..Len(F) :
              F[k].type = "tool_urls" => k < Len(F) /\ F[k + 1].type = "content"
        /\ \A i \in 1..Len(stream.seen) :
              IsMessageChunk(stream.seen[i]) =>
                 LET parts == TextParts(stream.seen[i])
                     cited == {j \in 1..Len(parts) :
                                 \E a \in 1..Len(parts[j].annotations) :
                                    /\ parts[j].hasAnnotations
                                    /\ parts[j].annotations[a].type = "url_citation"}
                     G == Frames(EventSlice(i))
                 IN  /\ CountType(G, "tool_urls") = Cardinality(cited)
                     /\ \A j \in cited :
                           \E k \in 1..(Len(G) - 1) :
                              /\ G[k] = [type |-> "tool_urls", urls |-> Urls(parts[j])]
                              /\ G[k + 1] = [type |-> "content", content |-> parts[j].text]

\* A chunk with a cited part of two url citations, one without a title, next
\* to an annotation of another kind, has been translated.
C7_Witness ==
    /\ \E i \in 1..Len(stream.seen) : stream.seen[i] = evMixed
    /\ CountType(Frames(stream.chan), "tool_urls") >= 1

\* The frames of the events seen so far, end to end.
HandledPrefix ==
    IF stream.marks = <<>> THEN <<>> ELSE SubSeq(stream.chan, 1, stream.marks[Len(stream.marks)])

\* C8: the channel carries, in the order the events were observed, the frames
\* each event produces (what handling that event alone enqueues), then exactly
\* one terminal frame (done on success, error on failure) and nothing after it
\* but the close; a web search call followed by a message chunk without
\* citations yields tool_call_done, content, done.
C8_FramesInEventOrder ==
    /\ \A i \in 1..Len(stream.seen) :
          \E now \in Clock :
             EventSlice(i) = HandleEvent([chan |-> <<>>, textContent |-> NoText],
                                         stream.seen[i], now).chan
    /\ \A i \in 1..(Len(stream.marks) - 1) : stream.marks[i] <= stream.marks[i + 1]
    /\ stream.pc = "iterating" => stream.chan = HandledPrefix
    /\ stream.pc = "closed" =>
          \E terminal \in {DoneFrame} \cup {ErrorFrame(e) : e \in Thrown} :
             /\ terminal.type = (IF stream.threw THEN "error" ELSE "done")
             /\ stream.chan = Close(Enqueue(HandledPrefix, terminal))
    /\ (stream.pc = "closed" /\ ~stream.threw /\ stream.seen = <<evWebSearch, evSunny>>)
          => FrameTypes(stream.chan) = <<"tool_call_done", "content", "done">>

\* The pass over a web search call and a message chunk has ended with done.
C8_Witness ==
    /\ stream.pc = "closed"
    /\ ~stream.threw
    /\ stream.seen = <<evWebSearch, evSunny>>

\* The texts of the first k parts, joined.
RECURSIVE Accumulated(_, _)
Accumulated(parts, k) ==
    IF k = 0 THEN NoText ELSE Accumulated(parts, k - 1) \o parts[k].text

\* C9: the k-th content frame of a message chunk carries the text of its
\* first k text parts, so the last one carries the text of all of them.
C9_ContentCarriesAccumulatedText ==
    \A i \in 1..Len(stream.seen) :
       IsMessageChunk(stream.seen[i]) =>
          LET parts == TextParts(stream.seen[i])
              sent == SelectSeq(Frames(EventSlice(i)), LAMBDA f : f.type = "content")
          IN  /\ Len(sent) = Len(parts)
              /\ \A k \in 1..Len(sent) : sent[k].content = Accumulated(parts, k)

\* C10: the channel is closed exactly once, when the pass ends, and the close
\* directly follows the terminal frame; it is not closed before.
C10_ChannelClosedOnce ==
    LET n == Len(stream.chan)
    IN  /\ stream.pc = "iterating" => CountClose(stream.chan) = 0
        /\ stream.pc = "closed" =>
              /\ CountClose(stream.chan) = 1
              /\ n >= 2
              /\ stream.chan[n].op = "close"
              /\ stream.chan[n - 1].op = "enqueue"
              /\ stream.chan[n - 1].frame.type \in {"done", "error"}

\* A pass over two events has ended without a throw and closed the channel.
C10_Witness ==
    /\ stream.pc = "closed"
    /\ ~stream.threw
    /\ Len(stream.seen) = 2
    /\ CountClose(stream.chan) = 1

\* ------------------------------------- claims on the translator and registry
\* C11: a step of the translation pass, the finally block included, calls
\* close on no handle and leaves the registry's map, initialized flag and
\* fingerprint as they are, whether the pass ends with done or with error.
C11_PassLeavesRegistry ==
    [][stream' # stream =>
          /\ hs' = hs
          /\ servers' = servers
          /\ isInitialized' = isInitialized
          /\ mcpConfigKey' = mcpConfigKey]_vars

\* A pass has ended with an error while the registry held connected handles,
\* none of which has had close called.
C11_Witness ==
    /\ stream.pc = "closed"
    /\ stream.threw
    /\ isInitialized
    /\ Len(servers) = 2
    /\ \A h \in Range(MapValues(servers)) : hs[h].st = "connected" /\ hs[h].closeInv = 0

\* --------------------------------------------- claims on tool call frames
IsToolCall(event) ==
    /\ event.type = "run_item_stream_event"
    /\ event.name = "tool_called"
    /\ event.itemType = "tool_call_item"

\* The tool_call_done frames sent while event i was handled.
ToolFrames(i) == SelectSeq(Frames(EventSlice(i)), LAMBDA f : f.type = "tool_call_done")

Present(v) == v # Absent /\ v # ""

\* The result the precedence (a) > (b) > (c) gives: the summary embedding the
\* query for a web search call with an action (in either of the two shapes
\* the run reports it in), else the output, else the placeholder.
ResultByPrecedence(rawItem) ==
    IF rawItem.type = "web_search_call" /\ rawItem.action.present
    THEN <<"Web search performed for: ", Interpolate(rawItem.action.query),
           "Results are integrated into the response below.">>
    ELSE IF rawItem.type = "hosted_tool_call" /\ rawItem.providerData.present
                                                /\ rawItem.providerData.action.present
    THEN <<"Search query: ", Interpolate(rawItem.providerData.action.query),
           "Results integrated into response.">>
    ELSE IF Present(rawItem.output)
    THEN <<rawItem.output>>
    ELSE <<"Tool executed successfully">>

\* C12: the result of every tool_call_done frame follows the precedence
\* (a) > (b) > (c): for a web search call with an action the synthesized
\* summary, even when the item has an output field too; else the output;
\* else the placeholder.
C12_ResultPrecedence ==
    \A i \in 1..Len(stream.seen) :
       IsToolCall(stream.seen[i]) =>
          \A k \in 1..Len(ToolFrames(i)) :
             ToolFrames(i)[k].result = ResultByPrecedence(stream.seen[i].rawItem)

\* C13: every finished tool invocation yields exactly one tool_call_done
\* frame; its tool name is the item's name, else its type, else "unknown";
\* its call id is the item's id, else a clock reading, and never empty; its
\* status is the item's status, else "completed". No other event yields a
\* tool_call_done frame.
C13_ToolCallDoneFields ==
    \A i \in 1..Len(stream.seen) :
       LET rawItem == stream.seen[i].rawItem
           sent == ToolFrames(i)
       IN  IF IsToolCall(stream.seen[i])
           THEN /\ Len(sent) = 1
                /\ sent[1].tool_name =
                      (IF Present(rawItem.name) THEN rawItem.name
                       ELSE IF Present(rawItem.type) THEN rawItem.type
                       ELSE "unknown")
                /\ Present(sent[1].tool_call_id)
                /\ IF Present(rawItem.id)
                   THEN sent[1].tool_call_id = rawItem.id
                   ELSE sent[1].tool_call_id \in Clock
                /\ sent[1].status =
                      (IF Present(rawItem.status) THEN rawItem.status ELSE "completed")
           ELSE Len(sent) = 0

\* Tool calls with no field at all, with a type but no name, and with a name
\* and a status of their own have been translated.
C13_Witness ==
    /\ \E i \in 1..Len(stream.seen) :
          stream.seen[i] = evBareTool /\ ToolFrames(i)[1].tool_name = "unknown"
    /\ \E i \in 1..Len(stream.seen) :
          stream.seen[i] = evWebSearch /\ ToolFrames(i)[1].tool_name = "web_search_call"
    /\ \E i \in 1..Len(stream.seen) :
          stream.seen[i] = evHosted /\ ToolFrames(i)[1].status = "in_progress"

\* An event the translator has no arm for.
Ignored(event) == ~IsToolCall(event) /\ ~IsMessageChunk(event)

\* What handling the events one after the other sends, the clock read as
\* nows[k] while event k is handled.
RECURSIVE Replay(_, _, _)
Replay(events, nows, k) ==
    IF k = 0 THEN [chan |-> <<>>, textContent |-> NoText]
    ELSE HandleEvent(Replay(events, nows, k - 1), events[k], nows[k])

\* C14: an event that is neither a finished tool invocation nor a message
\* chunk sends nothing, and the channel carries what the pass over the other
\* events alone would have sent, terminal frame included.
C14_OtherEventsIgnored ==
    LET kept == SelectSeq(stream.seen, LAMBDA e : ~Ignored(e))
    IN  /\ \A i \in 1..Len(stream.seen) :
              Ignored(stream.seen[i]) => EventSlice(i) = <<>>
        /\ \E nows \in [1..Len(kept) -> Clock] :
              LET sent == Replay(kept, nows, Len(kept)).chan
              IN  \/ stream.pc = "iterating" /\ stream.chan = sent
                  \/ /\ stream.pc = "closed" /\ ~stream.threw
                     /\ stream.chan = Close(Enqueue(sent, DoneFrame))
                  \/ /\ stream.pc = "closed" /\ stream.threw
                     /\ \E error \in Thrown : stream.chan = Close(OnError(sent, error))

\* A pass that saw an event of another type, then a run item event of another
\* name, then a message chunk, has ended with done.
C14_Witness ==
    /\ stream.pc = "closed"
    /\ ~stream.threw
    /\ stream.seen = <<evRawModel, evToolOutput, evCited>>

\* ------------------------------------- claims on replacing a configuration
\* Caller c is in, or has finished, a reconcile that found the registry
\* initialized with another fingerprint and has attempted a connect.
Replacing(c) ==
    /\ calls[c].op = "reconcile"
    /\ ~calls[c].fast
    /\ calls[c].init0
    /\ calls[c].nConn > 0

\* C15: when reconcile finds the registry initialized with another
\* fingerprint, close has been invoked on every handle the map held before
\* the first connect for the new list is attempted, and none of those handles
\* is in the map next to a handle of the new list.
C15_CloseBeforeConnect ==
    Replacing(1) =>
       \A h \in Range(calls[1].old) :
          /\ hs[h].closeInv >= 1
          /\ h \notin Range(MapValues(servers))

\* A reconcile replaced a map of two handles and has a new handle in the map.
C15_Witness ==
    /\ Replacing(1)
    /\ Len(calls[1].old) = 2
    /\ \E k \in 1..Len(calls[1].conn) :
          calls[1].conn[k].ok /\ calls[1].conn[k].h \in Range(MapValues(servers))

\* ------------------------------------------------------ claims on closeAll
CloseAllDone(c) == calls[c].op = "closeAll" /\ calls[c].pc = "done"

\* C16 as stated: after closeAll completes the map is empty, the initialized
\* flag is false and the stored fingerprint no longer equals the fingerprint
\* of the list applied before the call.
C16_CloseAllResetsKey ==
    CloseAllDone(1) =>
       /\ servers = <<>>
       /\ ~isInitialized
       /\ calls[1].key0 # Undefined => mcpConfigKey # calls[1].key0

\* C16 as amended: after closeAll completes the map is empty and the
\* initialized flag is false; the stored fingerprint is the one stored before
\* the call.
C16_CloseAllKeepsKey ==
    CloseAllDone(1) =>
       /\ servers = <<>>
       /\ ~isInitialized
       /\ mcpConfigKey = calls[1].key0

\* closeAll has completed on a registry that held a handle under a stored
\* fingerprint.
C16_Witness ==
    /\ CloseAllDone(1)
    /\ calls[1].init0
    /\ Len(calls[1].old) > 0
    /\ calls[1].key0 # Undefined

\* ---------------------------------------------- claims on overlapping calls
Quiescent == \A c \in Callers : CanStart(c)

\* C17: whenever no reconcile or closeAll call is in progress and the
\* registry is initialized, the key set of the map is the set of ids of the
\* entries of the most recently applied list whose connect succeeded, calls
\* that overlapped in time included.
C17_KeysAreAppliedIds ==
    (Quiescent /\ isInitialized) =>
       /\ applied.key = mcpConfigKey
       /\ MapKeys(servers) = applied.ids

\* C18: the stored fingerprint is that of the reconcile whose write happened
\* last: whenever the operation that completed last is a reconcile, the
\* stored fingerprint is the fingerprint of that call's list, whatever other
\* call overlapped with it.
C18_LastWriteWins ==
    lastDone.op = "reconcile" =>
       /\ getCurrentConfigKey(mcpConfigKey) = lastDone.key
       /\ applied.key = lastDone.key

\* Two reconcile calls with different lists have both completed; the stored
\* fingerprint is the one's, and a handle the other opened is connected, was
\* never closed and is not in the map.
C18_Witness ==
    \E c, d \in Callers :
       /\ c # d
       /\ \A e \in {c, d} :
             calls[e].op = "reconcile" /\ calls[e].pc = "done" /\ ~calls[e].fast
       /\ calls[c].key # calls[d].key
       /\ mcpConfigKey = calls[d].key
       /\ \E k \in 1..Len(calls[c].conn) :
             LET h == calls[c].conn[k].h
             IN  /\ hs[h].st = "connected"
                 /\ hs[h].closeInv = 0
                 /\ h \notin Range(MapValues(servers))

\* ------------------------------------------------- claims on leaked handles
\* C19: after any sequence of reconcile and closeAll calls that do not
\* overlap, for any lists, lists with two entries of the same id included,
\* every handle whose connect succeeded is in the map or has had close
\* invoked on it.
C19_NoConnectedHandleLeaks ==
    CanStart(1) =>
       \A h \in Handles :
          hs[h].st = "connected" =>
             h \in Range(MapValues(servers)) \/ hs[h].closeInv > 0

\* ------------------------------------------------- claims on close failures
\* C20: a failure of close never changes the outcome of the operation that
\* triggered it. When closeAll has completed, close has been invoked on every
\* handle the map held, whether or not an earlier close failed, and the map
\* is empty; in discover, the step that settles close, failed or not, leaves
\* the response as connect and listTools determined it.
C20_CloseFailureSwallowed ==
    /\ [](CloseAllDone(1) =>
             /\ servers = <<>>
             /\ ~isInitialized
             /\ \A h \in Range(calls[1].old) : hs[h].closeInv >= 1)
    /\ [][(disc.pc = "awaitClose" /\ disc'.pc = "done") =>
             /\ disc'.resp = disc.resp
             /\ disc'.stage = disc.stage]_vars
    /\ [](disc.pc = "done" =>
             \/ disc.stage = "listed" /\ disc.resp.status = 200
             \/ disc.stage = "rejected" /\ disc.resp.status = 400
             \/ /\ disc.stage \in {"parseFailed", "connectFailed", "listFailed"}
                /\ disc.resp.status = 500)

\* closeAll has completed over two handles, the close of the first of which
\* failed, and a discover request whose close failed has answered with the
\* catalog.
C20_Witness ==
    /\ CloseAllDone(1)
    /\ Len(calls[1].old) = 2
    /\ hs[calls[1].old[1]].st = "connected"
    /\ hs[calls[1].old[2]].st = "closed"
    /\ disc.pc = "done"
    /\ disc.closeFailed
    /\ disc.stage = "listed"
    /\ disc.resp.status = 200

\* ------------------------------------------- claims on who changes the registry
\* The step is one of a discover request.
DiscoverStep == disc' # disc \/ discCalls' # discCalls

\* The step is a call of getServers.
GetServersStep(c) == calls'[c] # calls[c] /\ calls'[c].op = "getServers"

\* C21: getHandles and discover leave the map, the initialized flag and the
\* fingerprint as they were, whether they succeed or fail; discover leaves
\* the registry's handles alone and puts no handle of its own into the map.
C21_OnlyReconcileAndCloseAllMutate ==
    [][(DiscoverStep \/ GetServersStep(1)) =>
          /\ servers' = servers
          /\ isInitialized' = isInitialized
          /\ mcpConfigKey' = mcpConfigKey
          /\ hs' = hs]_vars

\* On an initialized registry of two handles the second of two discover
\* requests has answered with a catalog, and getServers has returned the two
\* handles.
C21_Witness ==
    /\ isInitialized
    /\ Len(servers) = 2
    /\ discCalls = 2
    /\ disc.pc = "done"
    /\ disc.stage = "listed"
    /\ calls[1].op = "getServers"
    /\ calls[1].ret = MapValues(servers)

\* ------------------------------------------------ claims on the manage route
\* The step is the start of a request to the manage route by caller c.
ManageBeginStep(c) ==
    /\ CanStart(c)
    /\ calls'[c] # calls[c]
    /\ calls'[c].route = "manage"

\* initializeServers called directly with the list of the request that
\* caller c starts in this step.
DirectReconcile(c) == initializeServers(NewCall("reconcile", calls'[c].configs))

\* C22: a request to the manage route whose action is neither "close_all"
\* nor "update" is answered with a client error and leaves the map, the
\* flag, the fingerprint and every handle as they were; "close_all" leaves
\* the registry empty and uninitialized; "update" does to the registry what
\* reconcile does with the same list.
C22_ManageActions ==
    /\ [][(/\ ManageBeginStep(1)
           /\ calls'[1].op # "unparsed"
           /\ calls'[1].action \notin {"close_all", "update"}) =>
             /\ ManageResponse(calls'[1]) = 400
             /\ <<servers, isInitialized, mcpConfigKey, hs, nextHandle>>'
                   = <<servers, isInitialized, mcpConfigKey, hs, nextHandle>>]_vars
    /\ []((/\ calls[1].route = "manage"
           /\ calls[1].action = "close_all"
           /\ calls[1].pc = "done") =>
             /\ ManageResponse(calls[1]) = 200
             /\ servers = <<>>
             /\ ~isInitialized)
    /\ [][(ManageBeginStep(1) /\ calls'[1].action = "update") =>
             /\ servers' = DirectReconcile(1).servers
             /\ isInitialized' = DirectReconcile(1).isInitialized
             /\ mcpConfigKey' = DirectReconcile(1).mcpConfigKey
             /\ hs' = DirectReconcile(1).hs
             /\ nextHandle' = DirectReconcile(1).nextHandle
             /\ calls'[1] = [DirectReconcile(1).call EXCEPT !.route = "manage",
                                                           !.action = "update"]]_vars

\* On a registry of two handles set up by "update", a request with another
\* action has been answered with a client error.
C22_Witness ==
    /\ calls[1].route = "manage"
    /\ calls[1].action = "restart"
    /\ ManageResponse(calls[1]) = 400
    /\ isInitialized
    /\ Len(servers) = 2
    /\ calls[1].prev.op = "reconcile"

\* ------------------------------------------------ claims on half-open handles
\* Connect was called on handle h and resolved.
HasConnected(h) == hs[h].st \in {"connected", "closed"}

\* C23: every handle in the map, and every handle a reconcile or getServers
\* call has returned, has completed connect successfully; a handle whose
\* connect is pending or has failed is not in the map.
C23_MapHoldsConnectedOnly ==
    /\ \A h \in Range(MapValues(servers)) : HasConnected(h)
    /\ \A c \in Callers : \A h \in Range(calls[c].ret) : HasConnected(h)
    /\ \A h \in Handles :
          hs[h].st \in {"pending", "failed"} => h \notin Range(MapValues(servers))

\* One handle is in the map while the connect of another has failed and the
\* connect of a third is pending.
C23_Witness ==
    /\ Len(servers) = 1
    /\ \E h \in Handles : hs[h].st = "failed"
    /\ \E h \in Handles : hs[h].st = "pending"

\* ------------------------------------------------ claims on the end of a pass
\* The channel's last two requests are a terminal frame and the close.
TerminalThenClosed ==
    LET n == Len(stream.chan)
    IN  /\ stream.pc = "closed"
        /\ n >= 2
        /\ stream.chan[n].op = "close"
        /\ stream.chan[n - 1].op = "enqueue"
        /\ stream.chan[n - 1].frame.type = (IF stream.threw THEN "error" ELSE "done")

\* C24: a pass whose event sequence ends or raises sends a terminal frame,
\* done or error, and then closes the channel; once it has, the channel
\* stays closed.
C24_PassTerminates ==
    /\ (stream.pc = "iterating") ~> TerminalThenClosed
    /\ [](TerminalThenClosed => []TerminalThenClosed)

\* A pass that handled events has sent its terminal frame and closed.
C24_Witness ==
    /\ TerminalThenClosed
    /\ Len(stream.seen) = 2
    /\ Len(stream.chan) >= 4

\* ------------------------------------------------ claims on the fingerprint
\* Caller c is in, or has finished, a reconcile that found the registry
\* initialized under a fingerprint other than its list's.
FingerprintDiffers(c) ==
    /\ calls[c].op = "reconcile"
    /\ calls[c].init0
    /\ calls[c].key # getCurrentConfigKey(calls[c].key0)

\* C25: fingerprint equality is the sole reuse criterion. Two lists that
\* differ in any way, by the order of their configs or by a field the
\* transport does not read, serialize differently; and a reconcile that finds
\* the registry initialized under another fingerprint does not reuse: it
\* invokes close on every handle of the map before it connects, attempts a
\* connect for every entry of its list, and returns no handle that existed
\* before the call.
C25_FingerprintSoleCriterion ==
    /\ \A l1, l2 \in FingerprintLists : l1 # l2 => Stringify(l1) # Stringify(l2)
    /\ FingerprintDiffers(1) =>
          /\ ~calls[1].fast
          /\ calls[1].pc \in {"closedAll", "awaitConnect", "done"} =>
                \A h \in Range(calls[1].old) : hs[h].closeInv >= 1
          /\ calls[1].pc = "done" =>
                /\ calls[1].nConn = Len(calls[1].configs)
                /\ Range(calls[1].ret) \cap Range(calls[1].old) = {}

\* On a registry of two handles set up for a list, reconcile with the same
\* configs in the other order has returned two new handles.
C25_Witness ==
    /\ FingerprintDiffers(1)
    /\ calls[1].pc = "done"
    /\ calls[1].configs = <<cfgB, cfgA>>
    /\ calls[1].key0 = Stringify(<<cfgA, cfgB>>)
    /\ Len(calls[1].old) = 2
    /\ Len(calls[1].ret) = 2

\* The same for a list that differs in a field that is not read.
C25_WitnessIgnoredField ==
    /\ FingerprintDiffers(1)
    /\ calls[1].pc = "done"
    /\ calls[1].configs = <<cfgAu, cfgB>>
    /\ calls[1].key0 = Stringify(<<cfgA, cfgB>>)
    /\ Len(calls[1].old) = 2
    /\ Len(calls[1].ret) = 2

\* ------------------------------------------------ claims on incremental output
\* C26: the translator is incremental: whenever the pass is waiting for the
\* next event of the run, the channel already holds the frames of every
\* event consumed so far (the tool_call_done frame of a tool call, a content
\* frame for every text part of a message chunk), nothing was sent outside
\* the handling of an event, and taking the next event only appends.
C26_Incremental ==
    /\ [](stream.pc = "iterating" =>
             \A i \in 1..Len(stream.seen) :
                LET event == stream.seen[i]
                    sent == Frames(EventSlice(i))
                IN  /\ IsToolCall(event) => CountType(sent, "tool_call_done") = 1
                    /\ IsMessageChunk(event) =>
                          CountType(sent, "content") = Len(TextParts(event)))
    /\ [](stream.pc = "iterating" =>
             /\ Len(stream.marks) = Len(stream.seen)
             /\ stream.seen # <<>> => stream.marks[Len(stream.seen)] = Len(stream.chan))
    /\ [][Len(stream'.seen) = Len(stream.seen) + 1 =>
             /\ Len(stream'.chan) >= Len(stream.chan)
             /\ SubSeq(stream'.chan, 1, Len(stream.chan)) = stream.chan]_vars

\* The run has not ended, and the channel holds frames of the first and of
\* the second event.
C26_Witness ==
    /\ stream.pc = "iterating"
    /\ Len(stream.seen) = 2
    /\ stream.marks[1] >= 1
    /\ stream.marks[2] > stream.marks[1]
    /\ CountClose(stream.chan) = 0

\* ------------------------------------------------ claims on the agent route
\* The step is the start of a request to the agent route by caller c.
RunBeginStep(c) ==
    /\ CanStart(c)
    /\ calls'[c] # calls[c]
    /\ calls'[c].route = "run"

\* C27: a run request that passes validation and whose provider list is
\* absent or empty calls connect and close on no handle and leaves the map,
\* the flag and the fingerprint as they were; its run gets exactly the
\* handles that are in the map, those of an earlier request included.
C27_NoListUsesCurrentHandles ==
    [][(/\ RunBeginStep(1)
        /\ calls'[1].req.apiKey # Absent
        /\ ~calls'[1].req.hasConfig \/ calls'[1].req.configs = <<>>) =>
          /\ <<servers, isInitialized, mcpConfigKey, hs, nextHandle>>'
                = <<servers, isInitialized, mcpConfigKey, hs, nextHandle>>
          /\ calls'[1].nConn = 0
          /\ calls'[1].nClose = 0
          /\ calls'[1].pc = "done"
          /\ calls'[1].runKey # NoKey
          /\ calls'[1].ret = MapValues(servers)]_vars

\* A request without a provider list has started its run with the two
\* handles an earlier request connected.
C27_Witness ==
    /\ calls[1].route = "run"
    /\ ~calls[1].req.hasConfig
    /\ calls[1].runKey # NoKey
    /\ calls[1].prev.op = "reconcile"
    /\ Len(calls[1].ret) = 2
    /\ \A h \in Range(calls[1].ret) : hs[h].st = "connected" /\ hs[h].closeInv = 0

\* ------------------------------------------ claims on overlapping requests
InFlight(c) == calls[c].pc \in {"awaitClose", "closedAll", "awaitConnect"}

\* C28: two reconcile calls with identically serialized lists that overlap
\* (the second starts while the first is suspended in connect) perform at
\* most one connect per entry in total. Stated for two calls that both found
\* the registry uninitialized, so that connect is their only suspension.
C28_NoDuplicateConnects ==
    \A c, d \in Callers :
       (/\ c # d
        /\ \A e \in {c, d} :
              calls[e].op = "reconcile" /\ ~calls[e].init0 /\ InFlight(e)
        /\ calls[c].key = calls[d].key) =>
          calls[c].nConn + calls[d].nConn <= Len(calls[c].configs)

\* The step is the return of a reconcile or getServers call of caller c.
ReturnStep(c) ==
    /\ calls'[c] # calls[c]
    /\ calls'[c].pc = "done"
    /\ calls'[c].op \in {"reconcile", "getServers"}

\* C29: at the moment getServers or reconcile returns, close has been
\* invoked on none of the handles it returns, also when another call is
\* suspended between closing handles and clearing the map.
C29_ReturnedHandlesNotClosed ==
    [][\A c \in Callers :
          ReturnStep(c) =>
             \A h \in Range(calls'[c].ret) : hs'[h].closeInv = 0]_vars

\* C30: whenever a request has started its agent run, the default API key
\* at that moment was the key supplied in that request, however the requests
\* interleave.
C30_RunUnderOwnKey ==
    \A c \in Callers :
       (calls[c].route = "run" /\ calls[c].runKey # NoKey) =>
          calls[c].runKey = calls[c].req.apiKey

\* ------------------------------------- claims on reconcile after a teardown
\* A completed reconcile that directly follows a completed closeAll and whose
\* list serializes to the fingerprint stored when it began: the list applied
\* before the closeAll.
ReconcileAfterCloseAll(c) ==
    /\ c \in DoneCalls("reconcile")
    /\ calls[c].prev.op = "closeAll"
    /\ ~calls[c].init0
    /\ getCurrentConfigKey(calls[c].key0) = calls[c].key

\* C31: after reconcile(L) and closeAll, a reconcile with a list that
\* serializes as L does not take the unchanged-configuration return: it calls
\* connect for every entry of L and returns the handles that connected.
C31_ReconnectsAfterCloseAll ==
    \A c \in Callers :
        ReconcileAfterCloseAll(c) =>
            /\ ~calls[c].fast
            /\ calls[c].nConn = Len(calls[c].configs)
            /\ Range(calls[c].ret) = ConnectedBy(calls[c])

\* The part of C31 that holds of every list: the call goes through the connect
\* loop, calls connect for every entry, closes nothing, and returns handles
\* that it connected itself, one for each id that connected.
C31_NotTreatedAsUnchanged ==
    \A c \in Callers :
        ReconcileAfterCloseAll(c) =>
            /\ ~calls[c].fast
            /\ calls[c].nConn = Len(calls[c].configs)
            /\ calls[c].nClose = 0
            /\ Range(calls[c].ret) \subseteq ConnectedBy(calls[c])
            /\ MapKeys(servers) =
                 {calls[c].configs[i].id :
                    i \in {j \in 1..Len(calls[c].conn) : calls[c].conn[j].ok}}

\* reconcile, closeAll and reconcile of the same two-entry list with distinct
\* ids, both connects of the last call having succeeded.
C31_Reconnected ==
    \E c \in Callers :
        /\ ReconcileAfterCloseAll(c)
        /\ Len(calls[c].configs) = 2
        /\ Len(calls[c].ret) = 2
        /\ Len(calls[c].old) = 0

====
